---------------------------- MODULE Spec2Model ----------------------------
(***************************************************************************)
(* Model of package ssn (src/ssn.go): the 12-digit SSN value, its parser   *)
(* NewSSNFromString, the generator SetLastDigits / SetDate, the renderer   *)
(* Format, the Luhn checksum GetChecksum and GetRandomTime.                *)
(*                                                                         *)
(* A Go string is a sequence of bytes.  An ASCII byte is written as the    *)
(* one-character string of its character; the two bytes of the UTF-8       *)
(* encoding of U+00E9 are written "C3" (lead byte) and "A9" (continuation  *)
(* byte).  An SSN is a function 0..11 -> Int, indexed as in the source.    *)
(* A run-time panic (index out of range, rand.Intn/Int63n of a             *)
(* non-positive argument, the explicit panic of the parser) ends the       *)
(* program: pc = "panic" and no further call is made.  A call that returns *)
(* leaves the caller at pc = "returned" with the results in op, arg, ssn,  *)
(* err, str and val; Continue takes the caller to its next call.           *)
(***************************************************************************)
EXTENDS Integers, Sequences, FiniteSets, TLC

VARIABLES n,    \* the SSN value the caller holds (receiver of the methods)
          pc,   \* the caller: "ready" to call, "returned" from a call, or
                \* "panic" once a call has panicked
          op,   \* name of the last call ("" before the first)
          arg,  \* arguments of the last call
          ssn,  \* *SSN returned by the last NewSSNFromString
          err,  \* error returned by the last NewSSNFromString
          str,  \* string returned by the last Format
          val,  \* int / time returned by the last GetChecksum / GetRandomTime
          pre   \* value of n when the last call was made

vars == <<n, pc, op, arg, ssn, err, str, val, pre>>

-----------------------------------------------------------------------------
(* Bounds of the model *)

\* largest duration (in ticks) passed to GetRandomTime
MaxDur == 3
\* time.Now() ranges over 0..MaxNow
MaxNow == 1
\* SpecGetChecksum draws sequences that differ from a base in at most
\* MaxEdits positions
MaxEdits == 2

-----------------------------------------------------------------------------
(* Data model *)

SSNLen == 12
Idx == 0 .. (SSNLen - 1)
Digits == 0 .. 9

\* var ssn SSN
ZeroSSN == [i \in Idx |-> 0]

\* SSN{d0, ..., d11}: a composite literal, given as a TLA+ sequence
Lit(q) == [i \in Idx |-> q[i + 1]]

ErrNil == "nil"
ErrFormat == "ErrFormat"
ErrDate == "ErrDate"
ErrChecksum == "ErrChecksum"

NilPtr == [nil |-> TRUE, v |-> ZeroSSN]
Ptr(x) == [nil |-> FALSE, v |-> x]

-----------------------------------------------------------------------------
(* strconv and string helpers *)

DigitChars == <<"0", "1", "2", "3", "4", "5", "6", "7", "8", "9">>

IsDigitByte(b) == \E d \in Digits : DigitChars[d + 1] = b

\* strconv.Itoa of a non-negative int
RECURSIVE Itoa(_)
Itoa(i) ==
    IF i < 10 THEN <<DigitChars[i + 1]>>
    ELSE Itoa(i \div 10) \o <<DigitChars[(i % 10) + 1]>>

\* strconv.Atoi(string(b)) for one byte b
Atoi(b) ==
    IF IsDigitByte(b)
    THEN [v |-> CHOOSE d \in Digits : DigitChars[d + 1] = b, err |-> FALSE]
    ELSE [v |-> 0, err |-> TRUE]

\* value of a run of decimal digit bytes, as time.Parse reads a field
RECURSIVE FieldValue(_)
FieldValue(s) ==
    IF s = <<>> THEN 0
    ELSE 10 * FieldValue(SubSeq(s, 1, Len(s) - 1)) + Atoi(s[Len(s)]).v

-----------------------------------------------------------------------------
(* math/rand *)

\* the values rand.Intn(k) / rand.Int63n(k) can return, k > 0
Intn(k) == 0 .. (k - 1)

-----------------------------------------------------------------------------
(* The calendar (package time) *)

IsLeap(y) == (y % 4 = 0) /\ ((y % 100 # 0) \/ (y % 400 = 0))

DaysIn(m, y) ==
    IF m = 2 THEN (IF IsLeap(y) THEN 29 ELSE 28)
    ELSE IF m \in {4, 6, 9, 11} THEN 30 ELSE 31

ValidDate(y, m, d) == m \in 1 .. 12 /\ d >= 1 /\ d <= DaysIn(m, y)

\* time.Parse("20060102", s): 4 digits of year, 2 of month, 2 of day
TimeParse(s) ==
    IF Len(s) # 8 \/ \E k \in 1 .. Len(s) : ~IsDigitByte(s[k])
    THEN [ok |-> FALSE, t |-> [year |-> 0, month |-> 1, day |-> 1]]
    ELSE LET y == FieldValue(SubSeq(s, 1, 4))
             m == FieldValue(SubSeq(s, 5, 6))
             d == FieldValue(SubSeq(s, 7, 8))
         IN  IF ValidDate(y, m, d)
             THEN [ok |-> TRUE, t |-> [year |-> y, month |-> m, day |-> d]]
             ELSE [ok |-> FALSE, t |-> [year |-> 0, month |-> 1, day |-> 1]]

-----------------------------------------------------------------------------
(* getDigit, sumDigits, GetChecksum *)

getDigit(i) == [digit |-> i % 10, next |-> i \div 10]

sumDigitsWrong(i) == IF i > 9 THEN getDigit(i).digit ELSE i

RECURSIVE sumDigits(_)
sumDigits(i) ==
    IF i > 9
    THEN sumDigits(getDigit(i).digit + getDigit(i).next)
    ELSE i

RECURSIVE ChecksumLoop(_, _, _)
ChecksumLoop(x, i, sum) ==
    IF i < 11
    THEN ChecksumLoop(x, i + 1, sum + sumDigits((((i + 1) % 2) + 1) * x[i]))
    ELSE sum

GetChecksum(x) == (10 - (ChecksumLoop(x, 2, 0) % 10)) % 10

-----------------------------------------------------------------------------
(* SetDate *)

SetDateSwapped(x, t) ==
    LET y3 == getDigit(t.year)
        y2 == getDigit(y3.next)
        y1 == getDigit(y2.next)
        y0 == getDigit(y1.next)
        m5 == getDigit(t.month)
        m4 == getDigit(m5.next)
        d7 == getDigit(t.day)
        d6 == getDigit(d7.next)
    IN  [x EXCEPT ![3] = y3.digit, ![2] = y2.digit, ![1] = y1.digit,
                  ![0] = y0.digit, ![4] = m5.digit, ![5] = m4.digit,
                  ![7] = d7.digit, ![6] = d6.digit]

SetDate(x, t) ==
    LET y3 == getDigit(t.year)
        y2 == getDigit(y3.next)
        y1 == getDigit(y2.next)
        y0 == getDigit(y1.next)
        m5 == getDigit(t.month)
        m4 == getDigit(m5.next)
        d7 == getDigit(t.day)
        d6 == getDigit(d7.next)
    IN  [x EXCEPT ![3] = y3.digit, ![2] = y2.digit, ![1] = y1.digit,
                  ![0] = y0.digit, ![5] = m5.digit, ![4] = m4.digit,
                  ![7] = d7.digit, ![6] = d6.digit]

-----------------------------------------------------------------------------
(* Format *)

RECURSIVE FormatLoop(_, _, _, _)
FormatLoop(x, i, dash, b) ==
    IF i < SSNLen
    THEN FormatLoop(x, i + 1, dash,
                    b \o Itoa(x[i]) \o (IF i = 7 /\ dash THEN <<"-">> ELSE <<>>))
    ELSE b

Format(x, century, dash) ==
    FormatLoop(x, IF century THEN 0 ELSE 2, dash, <<>>)

-----------------------------------------------------------------------------
(* NewSSNFromString *)

\* regexp ^[0-9]{8}-[0-9]{4}$
MatchString(s) ==
    /\ Len(s) = 13
    /\ \A k \in 1 .. 8 : IsDigitByte(s[k])
    /\ s[9] = "-"
    /\ \A k \in 10 .. 13 : IsDigitByte(s[k])

\* for i := 8; i < 12; i++ { ssn[i], err = strconv.Atoi(string(s[i+1])) ... }
RECURSIVE ParseLoop(_, _, _)
ParseLoop(x, s, i) ==
    IF i < 12
    THEN IF i + 2 > Len(s) \/ Atoi(s[i + 2]).err
         THEN [panic |-> TRUE, v |-> x]
         ELSE ParseLoop([x EXCEPT ![i] = Atoi(s[i + 2]).v], s, i + 1)
    ELSE [panic |-> FALSE, v |-> x]

NewSSNFromString(s) ==
    IF ~MatchString(s)
    THEN [panic |-> FALSE, ssn |-> NilPtr, err |-> ErrFormat]
    ELSE LET tm == TimeParse(SubSeq(s, 1, 8))
         IN  IF ~tm.ok
             THEN [panic |-> FALSE, ssn |-> NilPtr, err |-> ErrDate]
             ELSE LET r == ParseLoop(SetDate(ZeroSSN, tm.t), s, 8)
                  IN  IF r.panic
                      THEN [panic |-> TRUE, ssn |-> NilPtr, err |-> ErrNil]
                      ELSE IF GetChecksum(r.v) # r.v[11]
                           THEN [panic |-> FALSE, ssn |-> NilPtr,
                                 err |-> ErrChecksum]
                           ELSE [panic |-> FALSE, ssn |-> Ptr(r.v),
                                 err |-> ErrNil]

-----------------------------------------------------------------------------
(* safeString, []rune conversion, SetLastDigits *)

Stars == <<"*", "*", "*", "*">>

safeString(s, def) ==
    IF Len(s) >= Len(def)
    THEN SubSeq(s, 1, Len(def))
    ELSE s \o SubSeq(def, Len(s) + 1, Len(def))

\* []rune(s): UTF-8 decoding; a byte that starts no valid encoding decodes to
\* the replacement rune U+FFFD and consumes one byte
RECURSIVE ToRunes(_)
ToRunes(b) ==
    IF b = <<>> THEN <<>>
    ELSE IF b[1] = "C3"
         THEN IF Len(b) >= 2 /\ b[2] = "A9"
              THEN <<"U+00E9">> \o ToRunes(SubSeq(b, 3, Len(b)))
              ELSE <<"U+FFFD">> \o ToRunes(Tail(b))
         ELSE IF b[1] = "A9"
              THEN <<"U+FFFD">> \o ToRunes(Tail(b))
              ELSE <<b[1]>> \o ToRunes(Tail(b))

\* ss[k] is evaluated without an index-out-of-range panic
InRange(ss, k) == k < Len(ss)

Ok(x) == [panic |-> FALSE, v |-> x]
Panicked(x) == [panic |-> TRUE, v |-> x]

\* n[8] = 9; n[9] = rand.Intn(1) + 8
SafeSerial(x) == {Ok([x EXCEPT ![8] = 9, ![9] = r + 8]) : r \in Intn(1)}

\* lines 87-97: the results of the serial-digit part
StageSerial(x, ss) ==
    IF ~InRange(ss, 0) THEN {Panicked(x)}
    ELSE IF ss[1] = "s" THEN SafeSerial(x)
    ELSE IF ~InRange(ss, 1) THEN {Panicked(x)}
    ELSE IF ss[2] = "s" THEN SafeSerial(x)
    ELSE LET a == IF ss[2] = "?"
                  THEN {[x EXCEPT ![8] = r] : r \in Intn(9)}
                  ELSE {x}
         IN  UNION {IF ~InRange(ss, 2) THEN {Panicked(y)}
                    ELSE IF ss[3] = "?"
                         THEN {Ok([y EXCEPT ![9] = r]) : r \in Intn(9)}
                         ELSE {Ok(y)} : y \in a}

\* lines 98-105: switch ss[3]
StageGender(x, ss) ==
    IF ~InRange(ss, 3) THEN {Panicked(x)}
    ELSE IF ss[4] = "?" THEN {Ok([x EXCEPT ![10] = r]) : r \in Intn(9)}
    ELSE IF ss[4] = "f" THEN {Ok([x EXCEPT ![10] = r * 2]) : r \in Intn(4)}
    ELSE IF ss[4] = "m" THEN {Ok([x EXCEPT ![10] = r * 2 + 1]) : r \in Intn(4)}
    ELSE {Ok(x)}

\* lines 106-108: if ss[4] == 'c'
StageChecksum(x, ss) ==
    IF ~InRange(ss, 4) THEN {Panicked(x)}
    ELSE IF ss[5] = "c" THEN {Ok([x EXCEPT ![11] = GetChecksum(x)])}
    ELSE {Ok(x)}

\* every result the call n.SetLastDigits(s) can have: the value left in n and
\* whether the call panicked
SetLastDigits(x, s) ==
    LET ss == ToRunes(safeString(s, Stars))
        a  == StageSerial(x, ss)
        b  == UNION {IF o.panic THEN {o} ELSE StageGender(o.v, ss) : o \in a}
    IN  UNION {IF o.panic THEN {o} ELSE StageChecksum(o.v, ss) : o \in b}

-----------------------------------------------------------------------------
(* GetRandomTime *)

\* every result of GetRandomTime(from, to) at time.Now() = now; rand.Int63n
\* panics unless its argument is positive
GetRandomTime(now, from, to) ==
    LET diff == from - to
    IN  IF diff <= 0
        THEN {[panic |-> TRUE, t |-> 0]}
        ELSE {[panic |-> FALSE, t |-> now + ((0 - randomDiff) - to)] :
                 randomDiff \in Intn(diff)}

-----------------------------------------------------------------------------
(* Inputs of the calls *)

\* the SSN literals of the tests (TestFormat, TestGetChecksum,
\* TestNewSSNFromString, TestSetLastDigits)
TestSSNs ==
    { Lit(<<1, 9, 7, 5, 0, 9, 3, 0, 1, 9, 3, 8>>),
      Lit(<<2, 0, 0, 9, 0, 3, 0, 1, 6, 6, 8, 1>>),
      Lit(<<2, 0, 1, 1, 0, 5, 3, 0, 4, 9, 3, 3>>),
      Lit(<<1, 9, 7, 2, 1, 1, 0, 1, 0, 5, 0, 4>>),
      Lit(<<2, 0, 0, 9, 0, 3, 0, 1, 6, 6, 8, 4>>),
      Lit(<<2, 0, 1, 0, 1, 5, 1, 0, 1, 2, 3, 4>>),
      Lit(<<1, 9, 7, 5, 0, 9, 2, 2, 1, 2, 3, 4>>) }

\* the literals a caller builds: a test literal, possibly with another last
\* digit
Literals == {[b EXCEPT ![11] = d] : b \in TestSSNs, d \in Digits}

\* the dates passed to SetDate (time.Time values are valid calendar dates)
Dates ==
    { [year |-> 1975, month |-> 9, day |-> 30],
      [year |-> 2009, month |-> 3, day |-> 1],
      [year |-> 2011, month |-> 5, day |-> 30],
      [year |-> 2000, month |-> 2, day |-> 29],
      [year |-> 1900, month |-> 2, day |-> 28],
      [year |-> 1999, month |-> 12, day |-> 31] }

\* the patterns passed to SetLastDigits
Patterns ==
    { <<"s", "s", "?", "c">>,
      <<"s", "*", "?", "c">>,
      <<"*", "s", "*", "*">>,
      <<"*", "*", "f", "*">>,
      <<"*", "*", "m", "*">>,
      <<"*", "*", "*", "c">>,
      <<"5", "*", "5", "*">>,
      <<"*", "5", "*", "5">>,
      <<"?", "*", "*", "*">>,
      <<"*", "?", "*", "*">>,
      <<"*", "*", "?", "*">>,
      <<"*", "*", "*", "?">>,
      <<"?", "?", "*", "*">>,
      <<>>,
      <<"*">>,
      <<"*", "*">>,
      <<"*", "*", "*">>,
      <<"*", "*", "*", "c", "*">>,
      <<"x", "*", "y", "*">>,
      <<"C3", "A9", "C3", "A9">>,
      <<"C3", "A9", "*", "*", "*">>,
      <<"s", "C3", "A9", "s">> }

\* the input strings of TestNewSSNFromString and TestFormat
TestTexts ==
    { <<"1", "9", "7", "5", "0", "9", "2", "-", "1", "9", "3", "8">>,
      <<"1", "9", "8", "A", "0", "9", "3", "0", "-", "1", "9", "3", "8">>,
      <<"2", "0", "1", "0", "1", "5", "1", "0", "-", "1", "2", "3", "4">>,
      <<"2", "0", "0", "9", "0", "3", "0", "1", "-", "6", "6", "8", "4">>,
      <<"2", "0", "1", "1", "0", "5", "3", "0", "-", "4", "9", "3", "3">>,
      <<"1", "9", "7", "5", "0", "9", "3", "0", "-", "1", "9", "3", "8">> }

DeleteAt(s, k) == SubSeq(s, 1, k - 1) \o SubSeq(s, k + 1, Len(s))
ReplaceAt(s, k, c) == [s EXCEPT ![k] = c]
InsertAt(s, k, c) == SubSeq(s, 1, k - 1) \o <<c>> \o SubSeq(s, k, Len(s))

\* texts one edit away from s: a byte dropped, a byte replaced by a letter or
\* by a separator, a separator inserted, a byte appended
Mutations(s) ==
    {DeleteAt(s, k) : k \in 1 .. Len(s)}
      \cup {ReplaceAt(s, k, c) : k \in 1 .. Len(s), c \in {"A", "-"}}
      \cup {InsertAt(s, k, "-") : k \in 1 .. (Len(s) + 1)}
      \cup {s \o <<c>> : c \in {"0", "\n"}}

\* the strings passed to NewSSNFromString while the caller holds x
Texts(x) ==
    TestTexts
      \cup {Format(x, c, d) : c \in BOOLEAN, d \in BOOLEAN}
      \cup Mutations(Format(x, TRUE, TRUE))

NoArg == [text |-> <<>>, a |-> 0, b |-> 0, c |-> 0]
Flag(b) == IF b THEN 1 ELSE 0

-----------------------------------------------------------------------------
(* The calls *)

Init ==
    /\ n = ZeroSSN
    /\ pc = "ready"
    /\ op = ""
    /\ arg = NoArg
    /\ ssn = NilPtr
    /\ err = ErrNil
    /\ str = <<>>
    /\ val = 0
    /\ pre = ZeroSSN

\* n = SSN{...}
Literal ==
    /\ pc = "ready"
    /\ \E q \in Literals :
         /\ n' = q
         /\ pre' = q
    /\ op' = "Literal"
    /\ arg' = NoArg
    /\ ssn' = NilPtr /\ err' = ErrNil /\ str' = <<>> /\ val' = 0
    /\ pc' = "returned"

\* n.SetDate(t)
SetDateCall ==
    /\ pc = "ready"
    /\ \E t \in Dates :
         /\ n' = SetDate(n, t)
         /\ arg' = [text |-> <<>>, a |-> t.year, b |-> t.month, c |-> t.day]
    /\ pre' = n
    /\ op' = "SetDate"
    /\ ssn' = NilPtr /\ err' = ErrNil /\ str' = <<>> /\ val' = 0
    /\ pc' = "returned"

\* n.SetLastDigits(s)
SetLastDigitsCall ==
    /\ pc = "ready"
    /\ \E s \in Patterns :
         \E o \in SetLastDigits(n, s) :
            /\ n' = o.v
            /\ pc' = IF o.panic THEN "panic" ELSE "returned"
            /\ arg' = [text |-> s, a |-> 0, b |-> 0, c |-> 0]
    /\ pre' = n
    /\ op' = "SetLastDigits"
    /\ ssn' = NilPtr /\ err' = ErrNil /\ str' = <<>> /\ val' = 0

\* n.Format(century, dash)
FormatCall ==
    /\ pc = "ready"
    /\ \E century \in BOOLEAN, dash \in BOOLEAN :
         /\ str' = Format(n, century, dash)
         /\ arg' = [text |-> <<>>, a |-> Flag(century), b |-> Flag(dash),
                    c |-> 0]
    /\ pre' = n
    /\ op' = "Format"
    /\ ssn' = NilPtr /\ err' = ErrNil /\ val' = 0
    /\ pc' = "returned"
    /\ UNCHANGED n

\* NewSSNFromString(s)
NewSSNFromStringCall ==
    /\ pc = "ready"
    /\ \E s \in Texts(n) :
         LET r == NewSSNFromString(s)
         IN  /\ ssn' = r.ssn
             /\ err' = r.err
             /\ pc' = IF r.panic THEN "panic" ELSE "returned"
             /\ arg' = [text |-> s, a |-> 0, b |-> 0, c |-> 0]
    /\ pre' = n
    /\ op' = "NewSSNFromString"
    /\ str' = <<>> /\ val' = 0
    /\ UNCHANGED n

\* GetChecksum(n)
GetChecksumCall ==
    /\ pc = "ready"
    /\ val' = GetChecksum(n)
    /\ pre' = n
    /\ op' = "GetChecksum"
    /\ arg' = NoArg
    /\ ssn' = NilPtr /\ err' = ErrNil /\ str' = <<>>
    /\ pc' = "returned"
    /\ UNCHANGED n

\* GetRandomTime(from, to)
GetRandomTimeCall ==
    /\ pc = "ready"
    /\ \E now \in 0 .. MaxNow, from \in 0 .. MaxDur, to \in 0 .. MaxDur :
         \E o \in GetRandomTime(now, from, to) :
            /\ val' = o.t
            /\ pc' = IF o.panic THEN "panic" ELSE "returned"
            /\ arg' = [text |-> <<>>, a |-> now, b |-> from, c |-> to]
    /\ pre' = n
    /\ op' = "GetRandomTime"
    /\ ssn' = NilPtr /\ err' = ErrNil /\ str' = <<>>
    /\ UNCHANGED n

\* the caller goes on to its next call
Continue ==
    /\ pc = "returned"
    /\ pc' = "ready"
    /\ op' = ""
    /\ arg' = NoArg
    /\ ssn' = NilPtr /\ err' = ErrNil /\ str' = <<>> /\ val' = 0
    /\ pre' = n
    /\ UNCHANGED n

Next ==
    \/ Literal
    \/ SetDateCall
    \/ SetLastDigitsCall
    \/ FormatCall
    \/ NewSSNFromStringCall
    \/ GetChecksumCall
    \/ GetRandomTimeCall
    \/ Continue

Spec == Init /\ [][Next]_vars

-----------------------------------------------------------------------------
(* GetChecksum as a pure function of arbitrary digit sequences *)

\* the sequences that differ from the sequences of S in at most k positions
RECURSIVE EditsOf(_, _)
EditsOf(S, k) ==
    IF k = 0 THEN S
    ELSE EditsOf({[x EXCEPT ![i] = d] : x \in S, i \in Idx, d \in Digits},
                 k - 1)

ChecksumInputs == EditsOf({Lit(<<1, 9, 7, 5, 0, 9, 3, 0, 1, 9, 3, 8>>)}, MaxEdits)

InitGetChecksum ==
    /\ n \in ChecksumInputs
    /\ pc = "ready"
    /\ op = ""
    /\ arg = NoArg
    /\ ssn = NilPtr
    /\ err = ErrNil
    /\ str = <<>>
    /\ val = 0
    /\ pre = n

NextGetChecksum == GetChecksumCall

SpecGetChecksum == InitGetChecksum /\ [][NextGetChecksum]_vars

-----------------------------------------------------------------------------
(* Notions the properties are stated with *)

\* 8 decimal digits, an optional single separator "-", then 4 decimal digits
ShapeOK(s) ==
    \/ /\ Len(s) = 12
       /\ \A k \in 1 .. 12 : IsDigitByte(s[k])
    \/ /\ Len(s) = 13
       /\ s[9] = "-"
       /\ \A k \in (1 .. 13) \ {9} : IsDigitByte(s[k])

\* the 12 digits of a text of the accepted shape
TextDigits(s) ==
    LET ds == SelectSeq(s, IsDigitByte)
    IN  [i \in Idx |-> Atoi(ds[i + 1]).v]

AllDigits(x) == \A i \in Idx : x[i] \in Digits

\* digits 0-7 of x are a calendar date
ValidDateDigits(x) ==
    ValidDate(1000 * x[0] + 100 * x[1] + 10 * x[2] + x[3],
              10 * x[4] + x[5],
              10 * x[6] + x[7])

\* the reference Luhn value over positions 2..10
LuhnWeight(i) == IF (i - 2) % 2 = 0 THEN 2 ELSE 1
LuhnTerm(x, i) ==
    LET p == LuhnWeight(i) * x[i] IN IF p > 9 THEN p - 9 ELSE p
LuhnSum(x) ==
    LuhnTerm(x, 2) + LuhnTerm(x, 3) + LuhnTerm(x, 4) + LuhnTerm(x, 5)
      + LuhnTerm(x, 6) + LuhnTerm(x, 7) + LuhnTerm(x, 8) + LuhnTerm(x, 9)
      + LuhnTerm(x, 10)
LuhnRef(x) == (10 - (LuhnSum(x) % 10)) % 10

\* the characters of a pattern, completed with "*" to four
PatternChars(s) ==
    LET cs == ToRunes(s)
    IN  [k \in 0 .. 3 |-> IF k < Len(cs) THEN cs[k + 1] ELSE "*"]

SafePattern(s) == PatternChars(s)[0] = "s" \/ PatternChars(s)[1] = "s"

\* the values digit i can have after n.SetLastDigits(s) called on x
Possible(x, s, i) == {o.v[i] : o \in SetLastDigits(x, s)}

\* a character that is no directive at pattern position k
Unrecognized(c, k) ==
    /\ c # "*" /\ c # "?" /\ ~IsDigitByte(c)
    /\ ~(k = 2 /\ c \in {"f", "m"})
    /\ ~(k = 3 /\ c = "c")

-----------------------------------------------------------------------------
(* Properties *)

\* C1: NewSSNFromString returns ErrFormat with a nil sequence exactly for the
\* texts that are not 8 digits, an optional "-", 4 digits; the separated and
\* the unseparated form both pass the shape check.
C1_ShapeCheck ==
    op = "NewSSNFromString" =>
        /\ ShapeOK(arg.text) => err # ErrFormat
        /\ ~ShapeOK(arg.text) => (pc = "returned" /\ err = ErrFormat /\ ssn.nil)

\* C2: for a text of the accepted shape that passed the shape check, whose
\* date is valid and whose 12th digit is not the checksum, NewSSNFromString
\* returns ErrChecksum together with a non-nil sequence holding the 12 digits
\* of the text.
C2_ChecksumErrorKeepsSequence ==
    ( /\ op = "NewSSNFromString"
      /\ ShapeOK(arg.text)
      /\ err # ErrFormat
      /\ ValidDateDigits(TextDigits(arg.text))
      /\ TextDigits(arg.text)[11] # GetChecksum(TextDigits(arg.text)) )
    => ( /\ pc = "returned"
         /\ err = ErrChecksum
         /\ ~ssn.nil
         /\ ssn.v = TextDigits(arg.text) )

\* C3: for every sequence of digits, GetChecksum returns the reference Luhn
\* value over positions 2..10, which lies in 0..9 and does not depend on
\* digits 0, 1 and 11.
C3_ChecksumIsLuhn ==
    (op = "GetChecksum" /\ AllDigits(n)) =>
        /\ val = LuhnRef(n)
        /\ val \in 0 .. 9
        /\ \A i \in {0, 1, 11} : \A d \in Digits :
               GetChecksum([n EXCEPT ![i] = d]) = val

\* C3 witness: GetChecksum has been applied to 19750930-193x, where products
\* above 9 occur, and returned 8.
C3_Witness ==
    /\ op = "GetChecksum"
    /\ \A i \in 0 .. 10 : n[i] = <<1, 9, 7, 5, 0, 9, 3, 0, 1, 9, 3>>[i + 1]
    /\ 2 * n[2] > 9
    /\ val = 8

\* C4: a sequence of digits with a valid date and a correct checksum digit,
\* formatted with century and separator and parsed again, comes back equal
\* with a nil error.
C4_RoundTrip ==
    ( /\ op = "NewSSNFromString"
      /\ arg.text = Format(n, TRUE, TRUE)
      /\ AllDigits(n)
      /\ ValidDateDigits(n)
      /\ n[11] = GetChecksum(n) )
    => ( /\ pc = "returned"
         /\ err = ErrNil
         /\ ~ssn.nil
         /\ ssn.v = n )

\* C4 witness: the text of a sequence with a valid date (month digits
\* different, a non-zero serial) and a correct checksum has been parsed.
C4_Witness ==
    /\ op = "NewSSNFromString"
    /\ arg.text = Format(n, TRUE, TRUE)
    /\ AllDigits(n)
    /\ ValidDateDigits(n)
    /\ n[11] = GetChecksum(n)
    /\ n[4] # n[5]
    /\ n[8] # 0
    /\ err = ErrNil

\* C5: SetLastDigits("***c") sets digit 11 to GetChecksum over positions
\* 2..10 and leaves digits 8, 9 and 10 unchanged.
C5_ChecksumDirective ==
    (op = "SetLastDigits" /\ arg.text = <<"*", "*", "*", "c">>) =>
        /\ n[11] = GetChecksum(n)
        /\ \A i \in 8 .. 10 : n[i] = pre[i]

\* C6: with "s" as first or second pattern character, SetLastDigits sets
\* digit 8 to 9 and digit 9 to 8 or 9, and both 8 and 9 are possible.
C6_SafeSerial ==
    (op = "SetLastDigits" /\ SafePattern(arg.text)) =>
        /\ n[8] = 9
        /\ n[9] \in {8, 9}
        /\ Possible(pre, arg.text, 9) = {8, 9}

\* C7: with "f" as third pattern character SetLastDigits leaves digit 10 even,
\* with exactly 0,2,4,6,8 possible; with "m" odd, with exactly 1,3,5,7,9
\* possible; whatever digit 10 was before.
C7_GenderDigit ==
    op = "SetLastDigits" =>
        /\ PatternChars(arg.text)[2] = "f" =>
              /\ n[10] % 2 = 0
              /\ Possible(pre, arg.text, 10) = {0, 2, 4, 6, 8}
        /\ PatternChars(arg.text)[2] = "m" =>
              /\ n[10] % 2 = 1
              /\ Possible(pre, arg.text, 10) = {1, 3, 5, 7, 9}

\* C8: without "s" in the first two characters, pattern character k (missing
\* ones taken as "*") rules digit 8+k: "*" and an unrecognized character leave
\* it, a literal digit sets it, "?" sets it to a digit with all ten possible.
C8_DirectiveRule ==
    (op = "SetLastDigits" /\ ~SafePattern(arg.text)) =>
        \A k \in 0 .. 3 :
            LET c == PatternChars(arg.text)[k]
            IN  /\ (c = "*" \/ Unrecognized(c, k)) => n[8 + k] = pre[8 + k]
                /\ IsDigitByte(c) => n[8 + k] = Atoi(c).v
                /\ c = "?" =>
                      /\ n[8 + k] \in Digits
                      /\ Possible(pre, arg.text, 8 + k) = Digits

\* C9: for from >= to >= 0 GetRandomTime returns normally; for from > to the
\* result t has now - from <= t < now - to, every such t possible; for
\* from = to the result is now - from.
C9_RandomTimeWindow ==
    (op = "GetRandomTime" /\ arg.b >= arg.c /\ arg.c >= 0) =>
        /\ pc = "returned"
        /\ arg.b > arg.c =>
              /\ arg.a - arg.b <= val
              /\ val < arg.a - arg.c
              /\ {o.t : o \in GetRandomTime(arg.a, arg.b, arg.c)}
                    = (arg.a - arg.b) .. (arg.a - arg.c - 1)
        /\ arg.b = arg.c => val = arg.a - arg.b

\* C10: SetDate and SetLastDigits never panic, whatever the pattern.
C10_GenerationNeverFails ==
    op \in {"SetDate", "SetLastDigits"} => pc # "panic"

=============================================================================
